---- MODULE Spec2Model ----
(***************************************************************************)
(* Model of reveal_data_client: the coarse time-series client              *)
(* (time_series/coarse/client.py), its lru_cache-memoised _load_data, the  *)
(* three segment queries, and the validation loop of                       *)
(* time_series/coarse/checks.py.                                           *)
(*                                                                         *)
(* A recording file is a record [exists, cols, rows]; a row carries the    *)
(* four label columns and the LabChartTime value (milliseconds in the      *)
(* file, microseconds once converted to the timedelta index).              *)
(* Participant identifiers are the integers of Participants; a cache key   *)
(* is the argument tuple of _load_data, <<client instance, id>>.           *)
(***************************************************************************)
EXTENDS Integers, Sequences, FiniteSets, Bags, TLC

VARIABLES files, cache, thr, last, nops, stamp, loaded, evictedKeys, val, chk, stim

vars == <<files, cache, thr, last, nops, stamp, loaded, evictedKeys, val, chk, stim>>

(***************************************************************************)
(* Program constants                                                       *)
(***************************************************************************)
MAX_CACHE_SIZE == 20

VisitID == {"SV1", "SV2"}

AnsPeriod == {"REST", "STIM1", "STIM2", "STIM3", "IHG", "PECO", "HUT",
              "BASEIHG", "RECPECO", "BASEHUT", "RECHUT"}

VnsStatus == {"ON", "OFF"}

LabelColumns == {"Participant_ID", "Visit_ID", "ANS_Period", "ANS_Status"}

ChannelColumns == {"ECG", "NIBP", "Handgrip", "Respiratory_Waveform", "Systolic",
                   "Diastolic", "Mean", "HR", "Raw MSNA", "Filtered_MSNA", "RMS_MSNA",
                   "Respiratory Rate", "%MVC", "Stimulator", "Integrated_MSNA",
                   "Comment"}

IndexColumn == "LabChartTime"

CsvColumn == LabelColumns \cup {IndexColumn} \cup ChannelColumns

(***************************************************************************)
(* Bounds of the model                                                     *)
(***************************************************************************)
\* participants requested among the oldest entries of a warm cache
NumOld == 1
\* participants requested that a warm cache does not hold
NumNew == 2
\* queries issued in one run
MaxOps == 3
\* concurrent callers
NumThreads == 2
\* calls made in one run by concurrent callers, or on one drawn recording
MaxCalls == 2
\* rows of a drawn recording
MaxRows == 3
\* most rows of an evenly sampled table handed to check_sampling_rate
MaxSamples == 502
\* most expected pairs, or required columns, left out of the input of a check
MaxDropped == 1
\* most entries of the directory primary/
MaxDirs == 3
\* most rows of the participant assignment table
MaxAssigned == 2
\* largest start and end time of an ANS period, in minutes
MaxTime == 3
\* largest duty-cycle ON or OFF duration, in minutes
MaxMinutes == 2
\* most ON intervals get_stim_on_times is followed for
MaxIntervals == 5

Clients == {1, 2}

\* the last participant has a directory but no readable recording file
MissingParticipant == MAX_CACHE_SIZE + NumNew + 1

Participants == 1..MissingParticipant

AllKeys == Clients \X Participants

Threads == 1..NumThreads

(***************************************************************************)
(* Recording files                                                         *)
(***************************************************************************)
Row(p, v, a, s, t) == [pid |-> p, visit |-> v, period |-> a, status |-> s, time |-> t]

NoFile == [exists |-> FALSE, cols |-> {}, rows |-> << >>]

NoTable == [cols |-> {}, rows |-> << >>]

\* the recording of participant p: two shapes, by parity of the identifier
StdFile(p) ==
    [exists |-> TRUE,
     cols   |-> CsvColumn,
     rows   |-> IF p % 2 = 1
                THEN << Row(p, "SV1", "REST", "OFF", 0),
                        Row(p, "SV1", "STIM1", "ON", 4),
                        Row(p, "SV1", "REST", "OFF", 8),
                        Row(p, "SV1", "STIM1", "ON", 12) >>
                ELSE << Row(p, "SV1", "REST", "OFF", 0),
                        Row(p, "SV1", "REST", "OFF", 4),
                        Row(p, "SV2", "IHG", "ON", 8),
                        Row(p, "SV2", "IHG", "ON", 12) >>]

StdFiles == [p \in Participants |-> IF p = MissingParticipant THEN NoFile ELSE StdFile(p)]

(***************************************************************************)
(* functools.lru_cache around _load_data: entries ordered from the least   *)
(* recently used (head) to the most recently used (last).                  *)
(***************************************************************************)
cache_keys(c) == {c[i].key : i \in 1..Len(c)}

\* variant: a lookup by participant alone, whatever the client instance
lru_lookup_by_participant(c, key) ==
    IF \E i \in 1..Len(c) : c[i].key[2] = key[2]
    THEN CHOOSE i \in 1..Len(c) : c[i].key[2] = key[2] ELSE 0

\* variant: a lookup that finds nothing
lru_lookup_never_hits(c, key) == 0

\* position of key in the cache, 0 when absent
lru_lookup(c, key) ==
    IF key \in cache_keys(c) THEN CHOOSE i \in 1..Len(c) : c[i].key = key ELSE 0

\* variant: a hit that returns the result of the newest entry
lru_hit_result_of_newest(c, i) == c[Len(c)].table

\* the result a hit returns: the one stored with the key
lru_hit_result(c, i) == c[i].table

\* variant: a hit that leaves the order of the entries alone
lru_touch_keeps_order(c, i) == c

\* a hit moves the entry to the most-recently-used end
lru_touch(c, i) == SubSeq(c, 1, i - 1) \o SubSeq(c, i + 1, Len(c)) \o << c[i] >>

\* variant: a store that never evicts
lru_store_without_eviction(c, key, table) ==
    IF key \in cache_keys(c) THEN c ELSE Append(c, [key |-> key, table |-> table])

\* after the wrapped function returned: keep the cache when the key got in
\* meanwhile, else evict the oldest entry of a full cache and append
lru_store(c, key, table) ==
    IF key \in cache_keys(c) THEN c
    ELSE IF Len(c) >= MAX_CACHE_SIZE
         THEN Append(Tail(c), [key |-> key, table |-> table])
         ELSE Append(c, [key |-> key, table |-> table])

\* body of _load_data: read_csv, LabChartTime to timedelta, set_index
load_data_body(fs, p) ==
    IF ~fs[p].exists THEN [ok |-> FALSE, table |-> NoTable]
    ELSE IF IndexColumn \notin fs[p].cols THEN [ok |-> FALSE, table |-> NoTable]
    ELSE [ok    |-> TRUE,
          table |-> [cols |-> fs[p].cols \ {IndexColumn},
                     rows |-> [i \in 1..Len(fs[p].rows) |->
                                 [fs[p].rows[i] EXCEPT !.time = @ * 1000]]]]

\* variant: a memoised call that also stores and replays a failed decode
load_data_memoising_failures(c, fs, key) ==
    LET i == lru_lookup(c, key) IN
    IF i # 0
    THEN [outcome |-> IF c[i].table = NoTable THEN "fail" ELSE "hit", decoded |-> FALSE,
          cache |-> lru_touch(c, i), table |-> c[i].table]
    ELSE LET d == load_data_body(fs, key[2]) IN
         [outcome |-> IF d.ok THEN "miss" ELSE "fail", decoded |-> TRUE,
          cache |-> lru_store(c, key, d.table), table |-> d.table]

\* the memoised call as one caller runs it: a hit returns the stored table, a
\* miss runs the body and stores its result, an exception of the body passes
\* through and stores nothing
_load_data(c, fs, key) ==
    LET i == lru_lookup(c, key) IN
    IF i # 0
    THEN [outcome |-> "hit", decoded |-> FALSE, cache |-> lru_touch(c, i),
          table |-> lru_hit_result(c, i)]
    ELSE LET d == load_data_body(fs, key[2]) IN
         IF d.ok
         THEN [outcome |-> "miss", decoded |-> TRUE,
               cache |-> lru_store(c, key, d.table), table |-> d.table]
         ELSE [outcome |-> "fail", decoded |-> TRUE, cache |-> c, table |-> NoTable]

(***************************************************************************)
(* The three queries, as functions of the decoded table                    *)
(***************************************************************************)
Range(f) == {f[i] : i \in DOMAIN f}

\* Series.unique(): the distinct values in order of first appearance
unique(seq) ==
    LET first == {i \in 1..Len(seq) : \A j \in 1..(i - 1) : seq[j] # seq[i]}
        nth[n \in 1..Cardinality(first)] ==
            CHOOSE i \in first : Cardinality({j \in first : j < i}) = n - 1
    IN [n \in 1..Cardinality(first) |-> seq[nth[n]]]

NoResult == [status |-> "LoadError", visits |-> << >>, pairs |-> EmptyBag, rows |-> << >>]

Ok(visits, pairs, rows) ==
    [status |-> "ok", visits |-> visits, pairs |-> pairs, rows |-> rows]

Raise(error) == [NoResult EXCEPT !.status = error]

\* get_visit_ids: [VisitID(id) for id in data[VISIT_ID].unique()]
visit_ids_of(table) ==
    IF "Visit_ID" \notin table.cols THEN Raise("KeyError")
    ELSE LET ids == unique([i \in 1..Len(table.rows) |-> table.rows[i].visit]) IN
         IF \E i \in 1..Len(ids) : ids[i] \notin VisitID THEN Raise("ValueError")
         ELSE Ok(ids, EmptyBag, << >>)

\* zip(data[ANS_PERIOD], data[ANS_STATUS]): one pair per row
zip_labels(rows) == [i \in 1..Len(rows) |-> <<rows[i].period, rows[i].status>>]

\* variant: the list built from the zipped rows themselves, without set()
list_of_zip(zipped) ==
    [pr \in Range(zipped) |-> Cardinality({i \in 1..Len(zipped) : zipped[i] = pr})]

\* the returned list, as a bag: the comprehension runs over set(zip(...)), in
\* the set's iteration order
list_of_set_of_zip(zipped) == SetToBag(Range(zipped))

\* get_ans_periods_and_vns_status: one list element per element of the set
ans_periods_and_vns_status_of(table, visit_id) ==
    IF {"Visit_ID", "ANS_Period", "ANS_Status"} \cap table.cols
           # {"Visit_ID", "ANS_Period", "ANS_Status"}
    THEN Raise("KeyError")
    ELSE LET data == SelectSeq(table.rows, LAMBDA r : r.visit = visit_id)
             pairs == list_of_set_of_zip(zip_labels(data))
         IN IF \E pr \in BagToSet(pairs) : pr[1] \notin AnsPeriod \/ pr[2] \notin VnsStatus
            THEN Raise("ValueError")
            ELSE Ok(<< >>, pairs, << >>)

\* variant: a lookup of the group of rows, which raises when there is none
data_for_ans_period_by_group(table, participant_id, visit_id, ans_period, vns_status) ==
    LET hit == SelectSeq(table.rows,
                         LAMBDA r : /\ r.pid = participant_id
                                    /\ r.visit = visit_id
                                    /\ r.period = ans_period
                                    /\ r.status = vns_status)
    IN IF hit = << >> THEN Raise("KeyError") ELSE Ok(<< >>, EmptyBag, hit)

\* variant: a mask that leaves the status column out
data_for_ans_period_any_status(table, participant_id, visit_id, ans_period, vns_status) ==
    Ok(<< >>, EmptyBag,
       SelectSeq(table.rows,
                 LAMBDA r : /\ r.pid = participant_id
                            /\ r.visit = visit_id
                            /\ r.period = ans_period))

\* get_data_for_ans_period: the boolean mask over the four label columns
data_for_ans_period_of(table, participant_id, visit_id, ans_period, vns_status) ==
    IF LabelColumns \cap table.cols # LabelColumns THEN Raise("KeyError")
    ELSE Ok(<< >>, EmptyBag,
            SelectSeq(table.rows,
                      LAMBDA r : /\ r.pid = participant_id
                                 /\ r.visit = visit_id
                                 /\ r.period = ans_period
                                 /\ r.status = vns_status))

\* the body of a query method once _load_data returned `table`
answer(op, table, key, v, a, s) ==
    CASE op = "get_visit_ids" -> visit_ids_of(table)
      [] op = "get_ans_periods_and_vns_status" -> ans_periods_and_vns_status_of(table, v)
      [] op = "get_data_for_ans_period" -> data_for_ans_period_of(table, key[2], v, a, s)

(***************************************************************************)
(* State                                                                   *)
(***************************************************************************)
\* no client index was built and no validation run was started
\* (about[k] tells which participant, visit and pair results[k] is about)
NoRun == [pc |-> "none", ids |-> << >>, visits |-> << >>, i |-> 1, j |-> 1,
          todo |-> {}, results |-> << >>, about |-> << >>, error |-> "", at |-> ""]

Idle == [pc |-> "idle", op |-> "", key |-> <<0, 0>>, visit |-> "", period |-> "",
         status |-> ""]

NoCall == [op |-> "", key |-> <<0, 0>>, visit |-> "", period |-> "", vstatus |-> "",
           outcome |-> "", decoded |-> FALSE, evicted |-> {}, result |-> NoResult]

\* no stimulation setting was resolved and no duty cycle unrolled: stim keeps
\* the two reference tables and the mapping get_ans_stim_mapping returned,
\* and the arguments and variables of get_stim_on_times
NoStim == [pc |-> "none", options |-> << >>, assigned |-> << >>, mapping |-> << >>,
           raised |-> "", start_time |-> 0, end_time |-> 0,
           duty_cycle_on |-> 0, duty_cycle_off |-> 0,
           stim_on_time |-> 0, stim_on_times |-> << >>]

\* no check function was applied: chk keeps the arguments of the one applied
\* (the table, the observed pairs, the expected rate) and what it returned
\* (for the scan of the participant directories: the entries of primary/ and
\* the identifiers returned)
NoCheck == [op |-> "", data |-> NoTable, pairs |-> {}, expected |-> 0, raised |-> "",
            listing |-> << >>, ids |-> << >>,
            result |-> [name |-> "", passed |-> FALSE,
                        details |-> [given |-> FALSE, pairs |-> {}, channels |-> {},
                                     rate |-> 0]]]

\* a cache warmed by first loads of participants 1..k through client 1
Prefill(fs, k) == [i \in 1..k |-> [key |-> <<1, i>>, table |-> load_data_body(fs, i).table]]

PrefillSizes == {0, MAX_CACHE_SIZE - 1, MAX_CACHE_SIZE}

\* the keys the callers ask for: the oldest entries of a warm cache, participants
\* beyond it, the first participant through a second client, a missing file
Requested ==
    ({1} \X ((1..NumOld) \cup ((MAX_CACHE_SIZE + 1)..(MAX_CACHE_SIZE + NumNew))))
        \cup {<<2, 1>>, <<1, MissingParticipant>>}

\* the (condition, status) arguments the callers pass to get_data_for_ans_period
ProbedPairs == {<<"REST", "OFF">>, <<"STIM1", "OFF">>}

InitCache(k) ==
    /\ files = StdFiles
    /\ cache = Prefill(StdFiles, k)
    /\ thr = [t \in Threads |-> Idle]
    /\ last = NoCall
    /\ nops = 0
    /\ stamp = [key \in AllKeys |-> IF key[1] = 1 /\ key[2] <= k THEN key[2] ELSE 0]
    /\ loaded = {<<1, i>> : i \in 1..k}
    /\ evictedKeys = {}
    /\ val = NoRun
    /\ chk = NoCheck
    /\ stim = NoStim

Init == \E k \in PrefillSizes : InitCache(k)

\* the time of the next load, later than every load of the warm-up
Now == MAX_CACHE_SIZE + nops + 1

Record(op, key, v, a, s, r, c2, res) ==
    /\ cache' = c2
    /\ last' = [op |-> op, key |-> key, visit |-> v, period |-> a, vstatus |-> s,
                outcome |-> r.outcome, decoded |-> r.decoded,
                evicted |-> cache_keys(cache) \ cache_keys(c2), result |-> res]
    /\ nops' = nops + 1
    /\ stamp' = IF r.outcome = "fail" THEN stamp ELSE [stamp EXCEPT ![key] = Now]
    /\ loaded' = IF r.outcome = "miss" THEN loaded \cup {key} ELSE loaded
    /\ evictedKeys' = evictedKeys \cup (cache_keys(cache) \ cache_keys(c2))

(***************************************************************************)
(* One caller: each query runs to completion                               *)
(***************************************************************************)
Serve(op, key, v, a, s) ==
    /\ nops < MaxOps
    /\ \A t \in Threads : thr[t].pc = "idle"
    /\ LET r == _load_data(cache, files, key) IN
       Record(op, key, v, a, s, r, r.cache,
              IF r.outcome = "fail" THEN NoResult ELSE answer(op, r.table, key, v, a, s))
    /\ UNCHANGED <<files, thr, val, chk, stim>>

GetVisitIds(key) == Serve("get_visit_ids", key, "", "", "")

GetAnsPeriodsAndVnsStatus(key, v) == Serve("get_ans_periods_and_vns_status", key, v, "", "")

GetDataForAnsPeriod(key, v, a, s) == Serve("get_data_for_ans_period", key, v, a, s)

Next ==
    \E key \in Requested :
        \/ GetVisitIds(key)
        \/ \E v \in VisitID : GetAnsPeriodsAndVnsStatus(key, v)
        \/ \E v \in VisitID, pr \in ProbedPairs : GetDataForAnsPeriod(key, v, pr[1], pr[2])

Spec == Init /\ [][Next]_vars

(***************************************************************************)
(* The queries on one drawn recording: the file of participant 1 is any    *)
(* sequence of up to MaxRows rows, sampled every 4 ms, whose labels are    *)
(* drawn from RowKinds; the other participants have no file.               *)
(***************************************************************************)
\* label tuples that differ from the first in one label each, one of them by a
\* Participant_ID that is not the file's and one by an unknown condition token
RowKinds ==
    { <<1, "SV1", "REST", "OFF">>, <<1, "SV1", "REST", "ON">>,
      <<1, "SV1", "STIM1", "ON">>, <<1, "SV2", "REST", "OFF">>,
      <<2, "SV1", "REST", "OFF">>, <<1, "SV1", "UNKNOWN", "OFF">> }

DrawnFile(labels) ==
    [exists |-> TRUE,
     cols   |-> CsvColumn,
     rows   |-> [i \in 1..Len(labels) |->
                    Row(labels[i][1], labels[i][2], labels[i][3], labels[i][4],
                        4 * (i - 1))]]

InitQuery ==
    \E n \in 0..MaxRows : \E labels \in [1..n -> RowKinds] :
        /\ files = [p \in Participants |-> IF p = 1 THEN DrawnFile(labels) ELSE NoFile]
        /\ cache = << >>
        /\ thr = [t \in Threads |-> Idle]
        /\ last = NoCall
        /\ nops = 0
        /\ stamp = [key \in AllKeys |-> 0]
        /\ loaded = {}
        /\ evictedKeys = {}
        /\ val = NoRun
        /\ chk = NoCheck
        /\ stim = NoStim

\* the conditions the callers ask for
ProbedPeriods == {"REST", "STIM1", "IHG"}

NextQuery ==
    /\ nops < MaxCalls
    /\ \/ GetVisitIds(<<1, 1>>)
       \/ \E v \in VisitID : GetAnsPeriodsAndVnsStatus(<<1, 1>>, v)
       \/ \E v \in VisitID, a \in ProbedPeriods, st \in VnsStatus :
             GetDataForAnsPeriod(<<1, 1>>, v, a, st)

SpecQuery == InitQuery /\ [][NextQuery]_vars

(***************************************************************************)
(* Several callers (threads) sharing the cache.  lru_cache holds its lock  *)
(* for the lookup and for the store, not while the wrapped function runs:  *)
(* a call is a lookup step and, after a miss, a later decode-and-store     *)
(* step, and other callers run in between.                                 *)
(***************************************************************************)
\* the lookup of a call by thread t: a hit completes the query at once, a
\* miss leaves the thread inside the body of _load_data
Call(t, op, key, v, a, s) ==
    /\ nops < MaxCalls
    /\ thr[t].pc = "idle"
    /\ LET i == lru_lookup(cache, key) IN
       IF i # 0
       THEN /\ Record(op, key, v, a, s, [outcome |-> "hit", decoded |-> FALSE],
                      lru_touch(cache, i),
                      answer(op, lru_hit_result(cache, i), key, v, a, s))
            /\ UNCHANGED <<files, thr, val, chk, stim>>
       ELSE /\ thr' = [thr EXCEPT ![t] = [pc |-> "decoding", op |-> op, key |-> key,
                                          visit |-> v, period |-> a, status |-> s]]
            /\ nops' = nops + 1
            /\ UNCHANGED <<files, cache, last, stamp, loaded, evictedKeys, val, chk, stim>>

CallGetVisitIds(t, key) == Call(t, "get_visit_ids", key, "", "", "")

CallGetAnsPeriodsAndVnsStatus(t, key, v) ==
    Call(t, "get_ans_periods_and_vns_status", key, v, "", "")

CallGetDataForAnsPeriod(t, key, v, a, s) == Call(t, "get_data_for_ans_period", key, v, a, s)

\* the body of _load_data returns or raises in thread t; lru_cache stores the
\* table and the query is answered from it
Return(t) ==
    /\ thr[t].pc = "decoding"
    /\ LET c == thr[t]
           d == load_data_body(files, c.key[2])
           c2 == IF d.ok THEN lru_store(cache, c.key, d.table) ELSE cache
       IN /\ cache' = c2
          /\ last' = [op |-> c.op, key |-> c.key, visit |-> c.visit, period |-> c.period,
                      vstatus |-> c.status,
                      outcome |-> IF d.ok THEN "miss" ELSE "fail", decoded |-> TRUE,
                      evicted |-> cache_keys(cache) \ cache_keys(c2),
                      result |-> IF d.ok
                                 THEN answer(c.op, d.table, c.key, c.visit, c.period,
                                             c.status)
                                 ELSE NoResult]
          /\ stamp' = IF d.ok /\ c.key \notin cache_keys(cache)
                      THEN [stamp EXCEPT ![c.key] = Now] ELSE stamp
          /\ loaded' = IF d.ok THEN loaded \cup {c.key} ELSE loaded
          /\ evictedKeys' = evictedKeys \cup (cache_keys(cache) \ cache_keys(c2))
    /\ thr' = [thr EXCEPT ![t] = Idle]
    /\ UNCHANGED <<files, nops, val, chk, stim>>

NextConc ==
    \E t \in Threads :
        \/ \E key \in Requested :
              \/ CallGetVisitIds(t, key)
              \/ \E v \in VisitID : CallGetAnsPeriodsAndVnsStatus(t, key, v)
              \/ \E v \in VisitID, pr \in ProbedPairs :
                    CallGetDataForAnsPeriod(t, key, v, pr[1], pr[2])
        \/ Return(t)

SpecConc == Init /\ [][NextConc]_vars

(***************************************************************************)
(* The checks of time_series/coarse/checks.py.  A CheckResult is           *)
(* [name, passed, details]; the details string is modelled by what it      *)
(* reports: the pairs, the channels or the computed rate.                  *)
(***************************************************************************)
EXPECTED_SAMPLING_RATE == 250

\* variant: an expected set that lists the tilt baseline in both statuses and
\* no tilt recovery
EXPECTED_WITH_SYMMETRIC_HUT ==
    { <<"STIM1", "ON">>, <<"STIM2", "ON">>, <<"STIM3", "ON">>, <<"REST", "OFF">>,
      <<"IHG", "ON">>, <<"IHG", "OFF">>, <<"PECO", "ON">>, <<"PECO", "OFF">>,
      <<"HUT", "ON">>, <<"HUT", "OFF">>, <<"BASEIHG", "OFF">>, <<"BASEIHG", "ON">>,
      <<"RECPECO", "OFF">>, <<"RECPECO", "ON">>, <<"BASEHUT", "OFF">>,
      <<"BASEHUT", "ON">> }

EXPECTED_ANS_PERIODS_AND_VNS_STATUS ==
    { <<"STIM1", "ON">>, <<"STIM2", "ON">>, <<"STIM3", "ON">>, <<"REST", "OFF">>,
      <<"IHG", "ON">>, <<"IHG", "OFF">>, <<"PECO", "ON">>, <<"PECO", "OFF">>,
      <<"HUT", "ON">>, <<"HUT", "OFF">>, <<"BASEIHG", "OFF">>, <<"BASEIHG", "ON">>,
      <<"RECPECO", "OFF">>, <<"RECPECO", "ON">>, <<"BASEHUT", "OFF">>,
      <<"RECHUT", "ON">> }

NoDetails == [given |-> FALSE, pairs |-> {}, channels |-> {}, rate |-> 0]

CheckResult(name, passed, details) == [name |-> name, passed |-> passed, details |-> details]

\* CsvColumn.required(): every column but the index
required == CsvColumn \ {IndexColumn}

\* variant: one check that fails on any difference between the two sets
check_missing_or_unexpected_pairs(periods_and_vns_status) ==
    LET missing_values ==
            (EXPECTED_ANS_PERIODS_AND_VNS_STATUS \ periods_and_vns_status)
            \cup (periods_and_vns_status \ EXPECTED_ANS_PERIODS_AND_VNS_STATUS)
    IN IF missing_values # {}
       THEN CheckResult("check_missing_ans_periods_and_vns_status", FALSE,
                        [NoDetails EXCEPT !.given = TRUE, !.pairs = missing_values])
       ELSE CheckResult("check_missing_ans_periods_and_vns_status", TRUE, NoDetails)

\* set(EXPECTED) - set(observed): fails when it is not empty
check_missing_ans_periods_and_vns_status(periods_and_vns_status) ==
    LET missing_values == EXPECTED_ANS_PERIODS_AND_VNS_STATUS \ periods_and_vns_status IN
    IF missing_values # {}
    THEN CheckResult("check_missing_ans_periods_and_vns_status", FALSE,
                     [NoDetails EXCEPT !.given = TRUE, !.pairs = missing_values])
    ELSE CheckResult("check_missing_ans_periods_and_vns_status", TRUE, NoDetails)

\* variant: the difference taken with its operands swapped
check_unexpected_pairs_swapped(periods_and_vns_status) ==
    LET unexpected_values == EXPECTED_ANS_PERIODS_AND_VNS_STATUS \ periods_and_vns_status IN
    IF unexpected_values # {}
    THEN CheckResult("check_unexpected_ans_periods_and_vns_status", FALSE,
                     [NoDetails EXCEPT !.given = TRUE, !.pairs = unexpected_values])
    ELSE CheckResult("check_unexpected_ans_periods_and_vns_status", TRUE, NoDetails)

\* set(observed) - set(EXPECTED): fails when it is not empty
check_unexpected_ans_periods_and_vns_status(periods_and_vns_status) ==
    LET unexpected_values == periods_and_vns_status \ EXPECTED_ANS_PERIODS_AND_VNS_STATUS IN
    IF unexpected_values # {}
    THEN CheckResult("check_unexpected_ans_periods_and_vns_status", FALSE,
                     [NoDetails EXCEPT !.given = TRUE, !.pairs = unexpected_values])
    ELSE CheckResult("check_unexpected_ans_periods_and_vns_status", TRUE, NoDetails)

\* variant: the index column counted among the expected channels
check_missing_channels_with_index(data) ==
    LET missing_channels == CsvColumn \ data.cols IN
    IF missing_channels # {}
    THEN CheckResult("check_missing_recording_channels", FALSE,
                     [NoDetails EXCEPT !.given = TRUE, !.channels = missing_channels])
    ELSE CheckResult("check_missing_recording_channels", TRUE, NoDetails)

check_missing_recording_channels(data) ==
    LET missing_channels == required \ data.cols IN
    IF missing_channels # {}
    THEN CheckResult("check_missing_recording_channels", FALSE,
                     [NoDetails EXCEPT !.given = TRUE, !.channels = missing_channels])
    ELSE CheckResult("check_missing_recording_channels", TRUE, NoDetails)

\* variant: the result returned under the name of the other channel check
check_unexpected_channels_under_other_name(data) ==
    LET unexpected_channels == data.cols \ required IN
    IF unexpected_channels # {}
    THEN CheckResult("check_missing_recording_channels", FALSE,
                     [NoDetails EXCEPT !.given = TRUE, !.channels = unexpected_channels])
    ELSE CheckResult("check_missing_recording_channels", TRUE, NoDetails)

check_unexpected_recording_channels(data) ==
    LET unexpected_channels == data.cols \ required IN
    IF unexpected_channels # {}
    THEN CheckResult("check_unexpected_recording_channels", FALSE,
                     [NoDetails EXCEPT !.given = TRUE, !.channels = unexpected_channels])
    ELSE CheckResult("check_unexpected_recording_channels", TRUE, NoDetails)

\* variant: a rounding that sends halves up
round_div_half_up(num, den) == (2 * num + den) \div (2 * den)

\* round(num / den) of Python 3 for den > 0: halves go to the even integer
round_div(num, den) ==
    LET q == num \div den
        r == num % den
    IN IF 2 * r < den THEN q
       ELSE IF 2 * r > den THEN q + 1
       ELSE IF q % 2 = 0 THEN q ELSE q + 1

\* check_sampling_rate: [raised, result]; data.index[-1] of an empty table and
\* the division by an elapsed time of zero raise
check_sampling_rate(data, expected_sampling_rate_hz) ==
    IF Len(data.rows) = 0
    THEN [raised |-> "IndexError", result |-> CheckResult("", FALSE, NoDetails)]
    ELSE LET elapsed == data.rows[Len(data.rows)].time - data.rows[1].time IN
         IF elapsed = 0
         THEN [raised |-> "ZeroDivisionError", result |-> CheckResult("", FALSE, NoDetails)]
         ELSE LET actual_sampling_rate == round_div(Len(data.rows) * 1000000, elapsed) IN
              [raised |-> "",
               result |->
                   IF actual_sampling_rate # expected_sampling_rate_hz
                   THEN CheckResult("check_sampling_rate", FALSE,
                                    [NoDetails EXCEPT !.given = TRUE,
                                                      !.rate = actual_sampling_rate])
                   ELSE CheckResult("check_sampling_rate", TRUE, NoDetails)]

(***************************************************************************)
(* The five checks applied to drawn arguments (specification SpecChecks):  *)
(* tables of evenly spaced rows, tables with columns missing or added,     *)
(* and collections of observed (condition, status) pairs.                  *)
(***************************************************************************)
\* the spacings of the rows, in microseconds: 250 Hz and 100 Hz
SamplePeriods == {4000, 10000}

\* a table of n rows of one segment, spaced period microseconds apart
EvenTable(n, period) ==
    [cols |-> required,
     rows |-> [i \in 1..n |-> Row(1, "SV1", "REST", "OFF", (i - 1) * period)]]

\* the subsets of S with at most k elements
UpTo(S, k) == {T \in SUBSET S : Cardinality(T) <= k}

\* columns a table may carry beside the required ones
ExtraColumns == {"unexpected", IndexColumn}

\* tables without rows, by their columns
ColumnTables ==
    {[cols |-> (required \ drop) \cup extra, rows |-> << >>] :
        drop \in UpTo(required, MaxDropped), extra \in SUBSET ExtraColumns}

\* the pairs of valid tokens outside the expected set
UnexpectedPairs == (AnsPeriod \X VnsStatus) \ EXPECTED_ANS_PERIODS_AND_VNS_STATUS

\* collections of observed pairs: the expected set with few pairs left out
\* and any unexpected pairs added, and the collections of few pairs
ObservedPairs ==
    {(EXPECTED_ANS_PERIODS_AND_VNS_STATUS \ drop) \cup extra :
        drop \in UpTo(EXPECTED_ANS_PERIODS_AND_VNS_STATUS, MaxDropped),
        extra \in SUBSET UnexpectedPairs}
    \cup UpTo(AnsPeriod \X VnsStatus, MaxDropped)

InitChecks ==
    /\ files = StdFiles
    /\ cache = << >>
    /\ thr = [t \in Threads |-> Idle]
    /\ last = NoCall
    /\ nops = 0
    /\ stamp = [key \in AllKeys |-> 0]
    /\ loaded = {}
    /\ evictedKeys = {}
    /\ val = NoRun
    /\ stim = NoStim
    /\ \/ \E n \in 0..MaxSamples : \E period \in SamplePeriods :
             chk = [NoCheck EXCEPT !.data = EvenTable(n, period),
                                   !.expected = EXPECTED_SAMPLING_RATE]
       \/ \E data \in ColumnTables :
             chk = [NoCheck EXCEPT !.data = data, !.expected = EXPECTED_SAMPLING_RATE]
       \/ \E pairs \in ObservedPairs :
             chk = [NoCheck EXCEPT !.pairs = pairs, !.expected = EXPECTED_SAMPLING_RATE]

\* one check returned result
Checked(op, result) ==
    /\ chk.op = ""
    /\ chk' = [chk EXCEPT !.op = op, !.result = result]
    /\ UNCHANGED <<files, cache, thr, last, nops, stamp, loaded, evictedKeys, val, stim>>

CheckMissingAnsPeriodsAndVnsStatus ==
    Checked("check_missing_ans_periods_and_vns_status",
            check_missing_ans_periods_and_vns_status(chk.pairs))

CheckUnexpectedAnsPeriodsAndVnsStatus ==
    Checked("check_unexpected_ans_periods_and_vns_status",
            check_unexpected_ans_periods_and_vns_status(chk.pairs))

CheckMissingRecordingChannels ==
    Checked("check_missing_recording_channels", check_missing_recording_channels(chk.data))

CheckUnexpectedRecordingChannels ==
    Checked("check_unexpected_recording_channels",
            check_unexpected_recording_channels(chk.data))

\* check_sampling_rate returns a result or raises
CheckSamplingRate ==
    LET r == check_sampling_rate(chk.data, chk.expected) IN
    /\ chk.op = ""
    /\ chk' = [chk EXCEPT !.op = "check_sampling_rate", !.raised = r.raised,
                          !.result = r.result]
    /\ UNCHANGED <<files, cache, thr, last, nops, stamp, loaded, evictedKeys, val, stim>>

NextChecks ==
    \/ CheckMissingAnsPeriodsAndVnsStatus
    \/ CheckUnexpectedAnsPeriodsAndVnsStatus
    \/ CheckMissingRecordingChannels
    \/ CheckUnexpectedRecordingChannels
    \/ CheckSamplingRate

SpecChecks == InitChecks /\ [][NextChecks]_vars

(***************************************************************************)
(* get_participant_ids over the entries of primary/ (specification         *)
(* SpecScan).  A name is a sequence of tokens: "sub-" stands for these     *)
(* four characters, " " for a whitespace character, any other token for a  *)
(* character that is not whitespace.                                       *)
(***************************************************************************)
\* the positions of name where the pattern sub-(\S+) matches
match_starts(name) ==
    {i \in 1..Len(name) - 1 : name[i] = "sub-" /\ name[i + 1] # " "}

\* extract_participant_id: re.search takes the leftmost match and the group
\* runs to the next whitespace; no match raises ValueError
extract_participant_id(folder_name) ==
    IF match_starts(folder_name) = {}
    THEN [raised |-> "ValueError", id |-> << >>]
    ELSE LET i == CHOOSE x \in match_starts(folder_name) :
                      \A y \in match_starts(folder_name) : x <= y
             stops == {k \in i + 1..Len(folder_name) : folder_name[k] = " "}
             end == IF stops = {} THEN Len(folder_name)
                    ELSE (CHOOSE k \in stops : \A m \in stops : k <= m) - 1
         IN [raised |-> "", id |-> SubSeq(folder_name, i + 1, end)]

\* variant: a scan without the try/except around the extraction
RECURSIVE get_participant_ids_unguarded(_)
get_participant_ids_unguarded(listing) ==
    IF listing = << >> THEN [raised |-> "", ids |-> << >>]
    ELSE LET r == extract_participant_id(Head(listing).name)
             rest == get_participant_ids_unguarded(Tail(listing))
         IN IF ~Head(listing).is_dir THEN rest
            ELSE IF r.raised # "" THEN [raised |-> r.raised, ids |-> << >>]
            ELSE IF rest.raised # "" THEN rest
            ELSE [raised |-> "", ids |-> << r.id >> \o rest.ids]

\* get_participant_ids: the entries that are directories, in iteration order;
\* a name without identifier is skipped with a warning
RECURSIVE get_participant_ids(_)
get_participant_ids(listing) ==
    IF listing = << >> THEN [raised |-> "", ids |-> << >>]
    ELSE LET r == extract_participant_id(Head(listing).name)
             rest == get_participant_ids(Tail(listing))
         IN IF ~Head(listing).is_dir THEN rest
            ELSE IF r.raised = "ValueError" THEN rest
            ELSE [raised |-> rest.raised, ids |-> << r.id >> \o rest.ids]

\* the characters of a name: "sub-" is "sub" and then the hyphen
RECURSIVE characters(_)
characters(name) ==
    IF name = << >> THEN << >>
    ELSE (IF Head(name) = "sub-" THEN <<"sub", "-">> ELSE << Head(name) >>)
         \o characters(Tail(name))

\* PARTICIPANT_DIR_STR.format(participant_id=...): the directory _load_data
\* reads the recording of a participant from
participant_dir(participant_id) == characters(<<"sub-">> \o participant_id)

\* flat layout: folder.name.split("-")[1], the characters between the first
\* hyphen and the next; a name without hyphen raises IndexError
flat_extract_participant_id(folder_name) ==
    LET cs == characters(folder_name)
        hyphens == {i \in 1..Len(cs) : cs[i] = "-"}
    IN IF hyphens = {} THEN [raised |-> "IndexError", id |-> << >>]
       ELSE LET first == CHOOSE x \in hyphens : \A y \in hyphens : x <= y
                later == {i \in hyphens : i > first}
                end == IF later = {} THEN Len(cs)
                       ELSE (CHOOSE k \in later : \A m \in later : k <= m) - 1
            IN [raised |-> "", id |-> SubSeq(cs, first + 1, end)]

\* flat layout: get_participant_ids, which skips the names without hyphen
RECURSIVE flat_get_participant_ids(_)
flat_get_participant_ids(listing) ==
    IF listing = << >> THEN [raised |-> "", ids |-> << >>]
    ELSE LET r == flat_extract_participant_id(Head(listing).name)
             rest == flat_get_participant_ids(Tail(listing))
         IN IF ~Head(listing).is_dir THEN rest
            ELSE IF r.raised = "IndexError" THEN rest
            ELSE [raised |-> rest.raised, ids |-> << r.id >> \o rest.ids]

\* the names of the entries of primary/
EntryNames ==
    { <<"sub-", "1">>, <<"sub-", "2">>, <<"sub-", "1", "2">>, <<"sub-">>, <<"1">>,
      <<"1", "sub-", "2">>, <<"sub-", " ", "1">>, <<"sub-", "1", " ", "2">>,
      <<"sub-", " ", "sub-", "2">>, <<"sub-", "sub-">>, <<"sub-", "1", "-", "2">>,
      <<"-", "1">> }

\* the entries of primary/: directories of every name and one plain file
Entries ==
    {[name |-> n, is_dir |-> TRUE] : n \in EntryNames}
    \cup {[name |-> <<"sub-", "1">>, is_dir |-> FALSE]}

InitScan ==
    /\ files = StdFiles
    /\ cache = << >>
    /\ thr = [t \in Threads |-> Idle]
    /\ last = NoCall
    /\ nops = 0
    /\ stamp = [key \in AllKeys |-> 0]
    /\ loaded = {}
    /\ evictedKeys = {}
    /\ val = NoRun
    /\ stim = NoStim
    /\ \E n \in 0..MaxDirs : \E listing \in [1..n -> Entries] :
          chk = [NoCheck EXCEPT !.listing = listing]

GetParticipantIds ==
    LET r == get_participant_ids(chk.listing) IN
    /\ chk.op = ""
    /\ chk' = [chk EXCEPT !.op = "get_participant_ids", !.raised = r.raised, !.ids = r.ids]
    /\ UNCHANGED <<files, cache, thr, last, nops, stamp, loaded, evictedKeys, val, stim>>

GetParticipantIdsFlat ==
    LET r == flat_get_participant_ids(chk.listing) IN
    /\ chk.op = ""
    /\ chk' = [chk EXCEPT !.op = "flat_get_participant_ids", !.raised = r.raised,
                          !.ids = r.ids]
    /\ UNCHANGED <<files, cache, thr, last, nops, stamp, loaded, evictedKeys, val, stim>>

NextScan ==
    \/ GetParticipantIds
    \/ GetParticipantIdsFlat

SpecScan == InitScan /\ [][NextScan]_vars

(***************************************************************************)
(* stim_setting.py: the join of the option table with the participant      *)
(* assignment table, and get_stim_on_times of                              *)
(* scripts/plot_stim_response_surfaces.py, which unrolls a duty cycle      *)
(* (specification SpecStim).  Durations and times are whole minutes.       *)
(***************************************************************************)
StimOption == {"A", "B", "C", "D", "E", "F"}

\* the six slot columns of the assignment table, in the order they are read,
\* with the visit and condition each stands for
ParticipantMappingCsvColumn ==
    << <<"SV1", "STIM1">>, <<"SV1", "STIM2">>, <<"SV1", "STIM3">>,
       <<"SV2", "STIM1">>, <<"SV2", "STIM2">>, <<"SV2", "STIM3">> >>

\* the dataclass StimSetting: duty_cycle_on defaults to 1.0 minute
StimSetting(pulse_width, current, frequency, duty_cycle_off) ==
    [pulse_width |-> pulse_width, current |-> current, frequency |-> frequency,
     duty_cycle_off |-> duty_cycle_off, duty_cycle_on |-> 1]

\* the last position of rows that satisfies Test (a later row of a dict
\* comprehension or of an assignment overwrites an earlier one)
LastRow(rows, Test(_)) ==
    CHOOSE i \in 1..Len(rows) : Test(rows[i]) /\ \A j \in i + 1..Len(rows) : ~Test(rows[j])

\* _get_stim_option_mapping: option -> StimSetting, from the option table
get_stim_option_mapping(rows) ==
    IF \E i \in 1..Len(rows) : rows[i].stim_option \notin StimOption
    THEN [raised |-> "ValueError", mapping |-> << >>]
    ELSE [raised |-> "",
          mapping |->
              [o \in {rows[i].stim_option : i \in 1..Len(rows)} |->
                  LET r == rows[LastRow(rows, LAMBDA x : x.stim_option = o)]
                  IN StimSetting(r.pulse_width_ms, r.level_ma, r.freq_hz,
                                 r.duty_cycle_off_min)]]

\* variant: the fourth slot read from the column of the first
participant_mapping_with_repeated_column(rows) ==
    IF \E i \in 1..Len(rows) : \E k \in 1..6 : rows[i].slots[k] \notin StimOption
    THEN [raised |-> "ValueError", mapping |-> << >>]
    ELSE [raised |-> "",
          mapping |->
              [key \in {<<rows[i].Participant_ID, ParticipantMappingCsvColumn[k][1],
                          ParticipantMappingCsvColumn[k][2]>> :
                            i \in 1..Len(rows), k \in 1..6} |->
                  LET r == rows[LastRow(rows, LAMBDA x : x.Participant_ID = key[1])]
                      k == CHOOSE n \in 1..6 :
                               ParticipantMappingCsvColumn[n] = <<key[2], key[3]>>
                  IN r.slots[IF k = 4 THEN 1 ELSE k]]]

\* _get_participant_mapping: (participant, visit, condition) -> option, six
\* entries per row of the assignment table
get_participant_mapping(rows) ==
    IF \E i \in 1..Len(rows) : \E k \in 1..6 : rows[i].slots[k] \notin StimOption
    THEN [raised |-> "ValueError", mapping |-> << >>]
    ELSE [raised |-> "",
          mapping |->
              [key \in {<<rows[i].Participant_ID, ParticipantMappingCsvColumn[k][1],
                          ParticipantMappingCsvColumn[k][2]>> :
                            i \in 1..Len(rows), k \in 1..6} |->
                  LET r == rows[LastRow(rows, LAMBDA x : x.Participant_ID = key[1])]
                      k == CHOOSE n \in 1..6 :
                               ParticipantMappingCsvColumn[n] = <<key[2], key[3]>>
                  IN r.slots[k]]]

\* get_ans_stim_mapping: the option of every entry looked up in the option
\* mapping; an option without row raises KeyError
get_ans_stim_mapping(options, assigned) ==
    LET stim_option_mapping == get_stim_option_mapping(options)
        participant_mapping == get_participant_mapping(assigned)
    IN IF stim_option_mapping.raised # ""
       THEN [raised |-> stim_option_mapping.raised, mapping |-> << >>]
       ELSE IF participant_mapping.raised # ""
       THEN [raised |-> participant_mapping.raised, mapping |-> << >>]
       ELSE IF \E key \in DOMAIN participant_mapping.mapping :
                  participant_mapping.mapping[key] \notin DOMAIN stim_option_mapping.mapping
       THEN [raised |-> "KeyError", mapping |-> << >>]
       ELSE [raised |-> "",
             mapping |-> [key \in DOMAIN participant_mapping.mapping |->
                            stim_option_mapping.mapping[participant_mapping.mapping[key]]]]

\* the option table: one row per option, each with values of its own
OptionRows ==
    << [stim_option |-> "A", pulse_width_ms |-> 1, level_ma |-> 11, freq_hz |-> 21,
        duty_cycle_off_min |-> 31],
       [stim_option |-> "B", pulse_width_ms |-> 2, level_ma |-> 12, freq_hz |-> 22,
        duty_cycle_off_min |-> 32],
       [stim_option |-> "C", pulse_width_ms |-> 3, level_ma |-> 13, freq_hz |-> 23,
        duty_cycle_off_min |-> 33],
       [stim_option |-> "D", pulse_width_ms |-> 4, level_ma |-> 14, freq_hz |-> 24,
        duty_cycle_off_min |-> 34],
       [stim_option |-> "E", pulse_width_ms |-> 5, level_ma |-> 15, freq_hz |-> 25,
        duty_cycle_off_min |-> 35],
       [stim_option |-> "F", pulse_width_ms |-> 6, level_ma |-> 16, freq_hz |-> 26,
        duty_cycle_off_min |-> 36] >>

\* a second row for option A
RepeatedOptionRow ==
    [stim_option |-> "A", pulse_width_ms |-> 7, level_ma |-> 17, freq_hz |-> 27,
     duty_cycle_off_min |-> 37]

\* option tables: the six rows with few left out, and these with option A
\* listed a second time
OptionTables ==
    LET kept(drop) == SelectSeq(OptionRows, LAMBDA r : r.stim_option \notin drop)
    IN {kept(drop) : drop \in UpTo(StimOption, MaxDropped)}
       \cup {Append(kept(drop), RepeatedOptionRow) : drop \in UpTo(StimOption, MaxDropped)}

\* the options a row of the assignment table names in its six slots
SlotPatterns ==
    { <<"A", "A", "A", "A", "A", "A">>, <<"A", "B", "C", "D", "E", "F">>,
      <<"F", "E", "D", "C", "B", "A">> }

AssignedRows == [Participant_ID : {1, 2}, slots : SlotPatterns]

InitStim ==
    /\ files = StdFiles
    /\ cache = << >>
    /\ thr = [t \in Threads |-> Idle]
    /\ last = NoCall
    /\ nops = 0
    /\ stamp = [key \in AllKeys |-> 0]
    /\ loaded = {}
    /\ evictedKeys = {}
    /\ val = NoRun
    /\ chk = NoCheck
    /\ \/ \E options \in OptionTables : \E n \in 0..MaxAssigned :
             \E assigned \in [1..n -> AssignedRows] :
                stim = [NoStim EXCEPT !.pc = "tables", !.options = options,
                                      !.assigned = assigned]
       \/ \E start_time, end_time \in 0..MaxTime : \E on, off \in 0..MaxMinutes :
             stim = [NoStim EXCEPT !.pc = "args", !.start_time = start_time,
                                   !.end_time = end_time, !.duty_cycle_on = on,
                                   !.duty_cycle_off = off]

GetAnsStimMapping ==
    LET r == get_ans_stim_mapping(stim.options, stim.assigned) IN
    /\ stim.pc = "tables"
    /\ stim' = [stim EXCEPT !.pc = IF r.raised = "" THEN "mapped" ELSE "raised",
                            !.raised = r.raised, !.mapping = r.mapping]
    /\ UNCHANGED <<files, cache, thr, last, nops, stamp, loaded, evictedKeys, val, chk>>

\* get_stim_on_times up to the loop
GetStimOnTimes ==
    /\ stim.pc = "args"
    /\ stim' = [stim EXCEPT !.pc = "while", !.stim_on_times = << >>,
                            !.stim_on_time = stim.start_time]
    /\ UNCHANGED <<files, cache, thr, last, nops, stamp, loaded, evictedKeys, val, chk>>

\* one iteration of the loop (followed for MaxIntervals iterations)
WhileBody ==
    /\ stim.pc = "while"
    /\ stim.stim_on_time < stim.end_time
    /\ Len(stim.stim_on_times) < MaxIntervals
    /\ stim' = [stim EXCEPT
                  !.stim_on_times =
                      Append(@, <<stim.stim_on_time, stim.stim_on_time + stim.duty_cycle_on>>),
                  !.stim_on_time = @ + stim.duty_cycle_on + stim.duty_cycle_off]
    /\ UNCHANGED <<files, cache, thr, last, nops, stamp, loaded, evictedKeys, val, chk>>

\* the loop condition fails: the intervals are returned
WhileExit ==
    /\ stim.pc = "while"
    /\ ~(stim.stim_on_time < stim.end_time)
    /\ stim' = [stim EXCEPT !.pc = "returned"]
    /\ UNCHANGED <<files, cache, thr, last, nops, stamp, loaded, evictedKeys, val, chk>>

NextStim ==
    \/ GetAnsStimMapping
    \/ GetStimOnTimes
    \/ WhileBody
    \/ WhileExit

SpecStim == InitStim /\ [][NextStim]_vars

(***************************************************************************)
(* RevealDataClient over a dataset of two participants, then               *)
(* validate_coarse_time_series on it.  val.pc is the position of the run:  *)
(* "new", "index_visits", "index_periods" (the constructor), "visit",      *)
(* "segment" (the loops of the validation), "done" or "raised" (val.at    *)
(* then keeps the position the exception came from).                       *)
(***************************************************************************)
\* the label tuples of the rows of the first participant's recording
ValRowKinds ==
    { <<1, "SV1", "REST", "OFF">>, <<1, "SV1", "STIM1", "ON">>,
      <<1, "SV2", "REST", "OFF">>, <<2, "SV1", "IHG", "ON">>,
      <<1, "SV3", "REST", "OFF">>, <<1, "SV1", "UNKNOWN", "OFF">> }

\* the column sets of the first participant's recording
ValColumns ==
    { CsvColumn, CsvColumn \ {"HR"}, CsvColumn \cup {"unexpected"},
      CsvColumn \ {"ANS_Status"} }

\* the directories get_participant_ids lists under primary/
ParticipantDirs == << 1, 2 >>

\* the second participant's recording: two interleaved segments in the first
\* visit and one segment in the second, each of two rows
ValFile(p) ==
    [exists |-> TRUE, cols |-> CsvColumn,
     rows |-> << Row(p, "SV1", "REST", "OFF", 0), Row(p, "SV1", "STIM1", "ON", 4),
                 Row(p, "SV1", "REST", "OFF", 8), Row(p, "SV1", "STIM1", "ON", 12),
                 Row(p, "SV2", "IHG", "ON", 16), Row(p, "SV2", "IHG", "ON", 20) >>]

InitValidate ==
    \E n \in 0..MaxRows : \E labels \in [1..n -> ValRowKinds] : \E cols \in ValColumns :
        /\ files = [p \in Participants |->
                       IF p = 1 THEN [DrawnFile(labels) EXCEPT !.cols = cols]
                       ELSE IF p = 2 THEN ValFile(2) ELSE NoFile]
        /\ cache = << >>
        /\ thr = [t \in Threads |-> Idle]
        /\ last = NoCall
        /\ nops = 0
        /\ stamp = [key \in AllKeys |-> 0]
        /\ loaded = {}
        /\ evictedKeys = {}
        /\ val = [NoRun EXCEPT !.pc = "new"]
        /\ chk = NoCheck
        /\ stim = NoStim

\* a query of the index or of the validation, through the cache of client 1
Query(op, p, v, a, s) ==
    LET r == _load_data(cache, files, <<1, p>>) IN
    [cache  |-> r.cache,
     table  |-> r.table,
     result |-> IF r.outcome = "fail" THEN NoResult
                ELSE answer(op, r.table, <<1, p>>, v, a, s)]

\* variant: only the first visit of each participant is gone through
SlotOfFirstVisits(visits, i, j) ==
    LET later == {ij \in (1..Len(visits)) \X {1} :
                     /\ ij[2] <= Len(visits[ij[1]])
                     /\ (ij[1] > i \/ (ij[1] = i /\ ij[2] >= j))}
    IN IF later = {} THEN <<0, 0>>
       ELSE CHOOSE ij \in later : \A x \in later : ij[1] <= x[1]

\* the first (participant, visit) position at or after (i, j) in the index
Slot(visits, i, j) ==
    LET later == {ij \in (1..Len(visits)) \X (1..2) :
                     /\ ij[2] <= Len(visits[ij[1]])
                     /\ (ij[1] > i \/ (ij[1] = i /\ ij[2] >= j))}
    IN IF later = {} THEN <<0, 0>>
       ELSE CHOOSE ij \in later :
                \A x \in later : ij[1] < x[1] \/ (ij[1] = x[1] /\ ij[2] <= x[2])

\* variant: the sampling-rate result appended before the channel results
segment_results_rate_first(coarse_time_series, rate) ==
    << rate, check_missing_recording_channels(coarse_time_series),
       check_unexpected_recording_channels(coarse_time_series) >>

\* the three results appended for one segment, in the order of the appends
segment_results(coarse_time_series, rate) ==
    << check_missing_recording_channels(coarse_time_series),
       check_unexpected_recording_channels(coarse_time_series), rate >>

\* an exception ends the run at the position it is in
Raised(error) == val' = [val EXCEPT !.pc = "raised", !.error = error, !.at = val.pc]

\* RevealDataClient.__init__: the participant identifiers
NewClient ==
    /\ val.pc = "new"
    /\ val' = [val EXCEPT !.pc = "index_visits", !.ids = ParticipantDirs, !.i = 1,
                          !.visits = [k \in 1..Len(ParticipantDirs) |-> << >>]]
    /\ UNCHANGED <<files, cache, thr, last, nops, stamp, loaded, evictedKeys, chk, stim>>

\* RevealDataClient.__init__: get_visit_ids of the next participant
IndexVisitIds ==
    /\ val.pc = "index_visits"
    /\ LET q == Query("get_visit_ids", val.ids[val.i], "", "", "") IN
       /\ cache' = q.cache
       /\ IF q.result.status # "ok" THEN Raised(q.result.status)
          ELSE LET visits == [val.visits EXCEPT ![val.i] = q.result.visits] IN
               IF val.i < Len(val.ids)
               THEN val' = [val EXCEPT !.visits = visits, !.i = val.i + 1]
               ELSE LET first == Slot(visits, 1, 1) IN
                    val' = [val EXCEPT !.visits = visits,
                                       !.pc = IF first = <<0, 0>> THEN "visit"
                                              ELSE "index_periods",
                                       !.i = first[1], !.j = first[2]]
    /\ UNCHANGED <<files, thr, last, nops, stamp, loaded, evictedKeys, chk, stim>>

\* RevealDataClient.__init__: the conditions of the next participant and visit
IndexAnsPeriods ==
    /\ val.pc = "index_periods"
    /\ LET q == Query("get_ans_periods_and_vns_status", val.ids[val.i],
                      val.visits[val.i][val.j], "", "")
           next == Slot(val.visits, val.i, val.j + 1)
       IN /\ cache' = q.cache
          /\ IF q.result.status # "ok" THEN Raised(q.result.status)
             ELSE IF next # <<0, 0>> THEN val' = [val EXCEPT !.i = next[1], !.j = next[2]]
             ELSE LET first == Slot(val.visits, 1, 1) IN
                  val' = [val EXCEPT !.pc = "visit", !.i = first[1], !.j = first[2]]
    /\ UNCHANGED <<files, thr, last, nops, stamp, loaded, evictedKeys, chk, stim>>

\* validate_coarse_time_series: the body of the visit loop up to the segment
\* loop, or the return of the report when no visit is left
ValidateVisit ==
    /\ val.pc = "visit"
    /\ IF val.i = 0
       THEN /\ val' = [val EXCEPT !.pc = "done"]
            /\ UNCHANGED cache
       ELSE LET q == Query("get_ans_periods_and_vns_status", val.ids[val.i],
                           val.visits[val.i][val.j], "", "")
                observed == BagToSet(q.result.pairs)
                next == Slot(val.visits, val.i, val.j + 1)
            IN /\ cache' = q.cache
               /\ IF q.result.status # "ok" THEN Raised(q.result.status)
                  ELSE val' =
                         [val EXCEPT
                            !.results =
                                @ \o << check_missing_ans_periods_and_vns_status(observed),
                                        check_unexpected_ans_periods_and_vns_status(observed) >>,
                            !.about = @ \o << <<val.i, val.j, << >> >>,
                                              <<val.i, val.j, << >> >> >>,
                            !.todo = observed,
                            !.pc = IF observed = {} THEN "visit" ELSE "segment",
                            !.i = IF observed = {} THEN next[1] ELSE @,
                            !.j = IF observed = {} THEN next[2] ELSE @]
    /\ UNCHANGED <<files, thr, last, nops, stamp, loaded, evictedKeys, chk, stim>>

\* validate_coarse_time_series: the body of the segment loop for the next pair
\* of the list, whose order is the iteration order of a set
ValidateSegment ==
    /\ val.pc = "segment"
    /\ \E pr \in val.todo :
          LET q == Query("get_data_for_ans_period", val.ids[val.i],
                         val.visits[val.i][val.j], pr[1], pr[2])
              coarse_time_series == [cols |-> q.table.cols, rows |-> q.result.rows]
              rate == check_sampling_rate(coarse_time_series, EXPECTED_SAMPLING_RATE)
              next == Slot(val.visits, val.i, val.j + 1)
              rest == val.todo \ {pr}
          IN /\ cache' = q.cache
             /\ IF q.result.status # "ok" THEN Raised(q.result.status)
                ELSE IF rate.raised # "" THEN Raised(rate.raised)
                ELSE val' =
                       [val EXCEPT
                          !.results = @ \o segment_results(coarse_time_series, rate.result),
                          !.about = @ \o [k \in 1..3 |-> <<val.i, val.j, pr>>],
                          !.todo = rest,
                          !.pc = IF rest = {} THEN "visit" ELSE "segment",
                          !.i = IF rest = {} THEN next[1] ELSE @,
                          !.j = IF rest = {} THEN next[2] ELSE @]
    /\ UNCHANGED <<files, thr, last, nops, stamp, loaded, evictedKeys, chk, stim>>

NextValidate ==
    \/ NewClient
    \/ IndexVisitIds
    \/ IndexAnsPeriods
    \/ ValidateVisit
    \/ ValidateSegment

SpecValidate == InitValidate /\ [][NextValidate]_vars

(***************************************************************************)
(* RevealDataClient.__init__ alone, over datasets of one to                *)
(* MAX_CACHE_SIZE + NumNew participants with the standard recordings       *)
(* (specification SpecIndex).                                              *)
(***************************************************************************)
\* the numbers of participant directories under primary/
IndexSizes == 1..(MAX_CACHE_SIZE + NumNew)

InitIndex ==
    \E n \in IndexSizes :
        /\ files = StdFiles
        /\ cache = << >>
        /\ thr = [t \in Threads |-> Idle]
        /\ last = NoCall
        /\ nops = 0
        /\ stamp = [key \in AllKeys |-> 0]
        /\ loaded = {}
        /\ evictedKeys = {}
        /\ val = [NoRun EXCEPT !.pc = "dataset", !.ids = [k \in 1..n |-> k]]
        /\ chk = NoCheck
        /\ stim = NoStim

\* RevealDataClient.__init__: get_participant_ids returns the directories of
\* the dataset
NewClientOfDataset ==
    /\ val.pc = "dataset"
    /\ val' = [val EXCEPT !.pc = "index_visits", !.i = 1,
                          !.visits = [k \in 1..Len(val.ids) |-> << >>]]
    /\ UNCHANGED <<files, cache, thr, last, nops, stamp, loaded, evictedKeys, chk, stim>>

NextIndex ==
    \/ NewClientOfDataset
    \/ IndexVisitIds
    \/ IndexAnsPeriods

SpecIndex == InitIndex /\ [][NextIndex]_vars

(***************************************************************************)
(* Properties of the cache under one caller (specification Spec)           *)
(***************************************************************************)
\* the entry stored under key
EntryOf(c, key) == CHOOSE e \in Range(c) : e.key = key

\* the keys a cache would drop if a participant it does not hold were stored
NextEvicted(c) == cache_keys(c) \ cache_keys(lru_store(c, <<0, 0>>, NoTable))

\* C1: a load of a participant that is not cached, into a cache that holds
\* MAX_CACHE_SIZE entries, evicts exactly one entry, the one whose most recent
\* load (hit or miss) is the oldest, and caches the loaded one; a load of a
\* cached participant evicts nothing and leaves it the most recently loaded,
\* so that it is not the entry evicted next.
C1_LruEviction ==
    [][nops' = nops + 1 =>
        /\ (last'.outcome = "miss" /\ Len(cache) = MAX_CACHE_SIZE) =>
              LET gone == cache_keys(cache) \ cache_keys(cache') IN
              /\ Cardinality(gone) = 1
              /\ \A g \in gone : \A k \in cache_keys(cache) \ {g} : stamp[g] < stamp[k]
              /\ cache_keys(cache') = (cache_keys(cache) \ gone) \cup {last'.key}
        /\ last'.outcome = "hit" =>
              /\ cache_keys(cache') = cache_keys(cache)
              /\ \A k \in cache_keys(cache') \ {last'.key} : stamp'[k] < stamp'[last'.key]
              /\ Len(cache') > 1 => last'.key \notin NextEvicted(cache')
      ]_vars

\* a hit refreshed participant 1, so the next miss on the full cache evicted 2
C1_Witness ==
    /\ last.outcome = "miss"
    /\ last.evicted = {<<1, 2>>}
    /\ <<1, 1>> \in cache_keys(cache)
    /\ Len(cache) = MAX_CACHE_SIZE

\* C3: the cache never holds more than MAX_CACHE_SIZE (20) decoded tables,
\* whatever loads, successful or failing, were made.
C3_CacheBounded == Len(cache) <= MAX_CACHE_SIZE /\ Cardinality(cache_keys(cache)) = Len(cache)

\* a successful load into a full cache has just completed
C3_Witness ==
    /\ Len(cache) = MAX_CACHE_SIZE
    /\ last.outcome = "miss"
    /\ last.evicted # {}

\* C4: with one caller, a query for a key that is cached does not decode the
\* file and is answered from the cached table; a key that was decoded before
\* is decoded again only after it was evicted.
C4_ServedFromCache ==
    [][nops' = nops + 1 =>
        /\ last'.key \in cache_keys(cache) =>
              /\ ~last'.decoded
              /\ last'.outcome = "hit"
              /\ last'.result = answer(last'.op, EntryOf(cache, last'.key).table, last'.key,
                                       last'.visit, last'.period, last'.vstatus)
        /\ (last'.decoded /\ last'.key \in loaded) => last'.key \in evictedKeys
      ]_vars

\* a key that was evicted and decoded again is then served from the cache
C4_Witness ==
    /\ last.outcome = "hit"
    /\ ~last.decoded
    /\ last.key \in evictedKeys

\* C5: a load that fails raises, leaves the cache as it was (no entry added,
\* none evicted or altered), and is not remembered: every load of a key that
\* is not cached attempts the decode.
C5_FailedLoadLeavesCache ==
    [][nops' = nops + 1 =>
        /\ last'.outcome = "fail" =>
              /\ cache' = cache
              /\ last'.key \notin cache_keys(cache')
              /\ last'.result.status = "LoadError"
        /\ last'.key \notin cache_keys(cache) => last'.decoded
      ]_vars

\* a load failed twice in a row on a full cache
C5_Witness ==
    /\ last.outcome = "fail"
    /\ last.decoded
    /\ nops >= 2
    /\ Len(cache) = MAX_CACHE_SIZE
    /\ stamp[last.key] = 0

\* C9: whatever was queried, loaded or evicted before, a completed
\* get_ans_periods_and_vns_status(p, v) returns the pairs that the unchanged
\* file of p holds for visit v, so two calls with the same arguments return
\* the same pairs.
C9_PairsIdempotent ==
    (last.op = "get_ans_periods_and_vns_status" /\ last.outcome # "fail") =>
        last.result =
            ans_periods_and_vns_status_of(load_data_body(files, last.key[2]).table,
                                          last.visit)

\* the call was answered from a table decoded again after an eviction
C9_Witness ==
    /\ last.op = "get_ans_periods_and_vns_status"
    /\ last.result.status = "ok"
    /\ last.result.pairs # EmptyBag
    /\ last.key \in evictedKeys
    /\ last.key \in cache_keys(cache)

(***************************************************************************)
(* Properties of the cache under several callers (specification SpecConc)  *)
(***************************************************************************)
\* C2: callers that concurrently request the same participant that is not
\* cached never have two decodes of that key in progress together.
C2_AtMostOneDecodePerKey ==
    \A t1 \in Threads, t2 \in Threads :
        (/\ t1 # t2
         /\ thr[t1].pc = "decoding" /\ files[thr[t1].key[2]].exists
         /\ thr[t2].pc = "decoding" /\ files[thr[t2].key[2]].exists)
            => thr[t1].key # thr[t2].key

\* C26: the cache is one structure for all client instances, keyed by
\* (client instance, participant): a load is served from the cache exactly
\* when the entry of that instance and participant is cached, never from the
\* entry of another instance; the entries of all instances together never
\* exceed MAX_CACHE_SIZE, and a miss on the full cache evicts one entry,
\* whichever instance cached it.
C26_OneCacheKeyedByInstance ==
    [][nops' = nops + 1 =>
        /\ last'.outcome = "hit" <=> last'.key \in cache_keys(cache)
        /\ last'.outcome = "hit" => ~last'.decoded /\ cache_keys(cache') = cache_keys(cache)
        /\ last'.outcome = "miss" =>
              /\ last'.decoded
              /\ last'.key \in cache_keys(cache')
              /\ Len(cache) = MAX_CACHE_SIZE =>
                    Cardinality(cache_keys(cache) \ cache_keys(cache')) = 1
        /\ Cardinality(cache_keys(cache')) <= MAX_CACHE_SIZE
        /\ Len(cache') = Cardinality(cache_keys(cache'))
      ]_vars

\* the first participant is cached through both instances, and the load
\* through the second instance evicted a table cached through the first
C26_Witness ==
    /\ last.key = <<2, 1>>
    /\ last.outcome = "miss"
    /\ last.evicted # {}
    /\ \A k \in last.evicted : k[1] = 1
    /\ {<<1, 1>>, <<2, 1>>} \subseteq cache_keys(cache)
    /\ Len(cache) = MAX_CACHE_SIZE

(***************************************************************************)
(* Properties of the queries (specification SpecQuery)                     *)
(***************************************************************************)
\* the decoded table of the participant the last call was about
DecodedOfLast == load_data_body(files, last.key[2]).table

\* the rows of the decoded table that carry the labels the last call named
MatchingLast ==
    {i \in 1..Len(DecodedOfLast.rows) :
        /\ DecodedOfLast.rows[i].pid = last.key[2]
        /\ DecodedOfLast.rows[i].visit = last.visit
        /\ DecodedOfLast.rows[i].period = last.period
        /\ DecodedOfLast.rows[i].status = last.vstatus}

\* the rows of the decoded table that belong to the visit the last call named
InVisitLast == {i \in 1..Len(DecodedOfLast.rows) : DecodedOfLast.rows[i].visit = last.visit}

\* C6: get_data_for_ans_period on a decoded table in which no row carries the
\* (visit, condition, status) asked for returns an empty table, without error.
C6_AbsentSegmentIsEmpty ==
    (/\ last.op = "get_data_for_ans_period"
     /\ last.outcome # "fail"
     /\ \A i \in 1..Len(DecodedOfLast.rows) :
           <<DecodedOfLast.rows[i].visit, DecodedOfLast.rows[i].period,
             DecodedOfLast.rows[i].status>> # <<last.visit, last.period, last.vstatus>>)
        => (last.result.status = "ok" /\ last.result.rows = << >>)

\* a table with rows was asked for a combination none of them carries
C6_Witness ==
    /\ last.op = "get_data_for_ans_period"
    /\ last.outcome # "fail"
    /\ Len(DecodedOfLast.rows) = MaxRows
    /\ \A i \in 1..Len(DecodedOfLast.rows) :
          <<DecodedOfLast.rows[i].visit, DecodedOfLast.rows[i].period,
            DecodedOfLast.rows[i].status>> # <<last.visit, last.period, last.vstatus>>
    /\ last.result.rows = << >>

\* C7: get_data_for_ans_period returns exactly the rows of the decoded table
\* whose four labels equal the arguments, each once, in the table's order.
C7_SegmentIsExactFilter ==
    (last.op = "get_data_for_ans_period" /\ last.outcome # "fail") =>
        /\ last.result.status = "ok"
        /\ Len(last.result.rows) = Cardinality(MatchingLast)
        /\ Range(last.result.rows) = {DecodedOfLast.rows[i] : i \in MatchingLast}
        /\ \A j \in 1..Len(last.result.rows), k \in 1..Len(last.result.rows) :
              j < k => last.result.rows[j].time < last.result.rows[k].time

\* two rows were returned and a row that differs in one label was left out
C7_Witness ==
    /\ last.op = "get_data_for_ans_period"
    /\ Len(last.result.rows) = 2
    /\ Len(DecodedOfLast.rows) = MaxRows
    /\ \E i \in 1..Len(DecodedOfLast.rows) :
          /\ i \notin MatchingLast
          /\ DecodedOfLast.rows[i].visit = last.visit
          /\ DecodedOfLast.rows[i].period = last.period

\* C8: when get_ans_periods_and_vns_status returns, its list holds once each
\* pair that labels a row of the visit and holds nothing else; it raises only
\* for a row of the visit whose condition or status token is unknown.
C8_PairsAreDistinct ==
    (last.op = "get_ans_periods_and_vns_status" /\ last.outcome # "fail") =>
        LET seen == {<<DecodedOfLast.rows[i].period, DecodedOfLast.rows[i].status>> :
                        i \in InVisitLast}
        IN /\ last.result.status = "ok" =>
                /\ BagToSet(last.result.pairs) = seen
                /\ \A pr \in seen : CopiesIn(pr, last.result.pairs) = 1
           /\ last.result.status # "ok" =>
                \E pr \in seen : pr[1] \notin AnsPeriod \/ pr[2] \notin VnsStatus

\* one pair labels two rows of the visit, and another visit carries rows too
C8_Witness ==
    /\ last.op = "get_ans_periods_and_vns_status"
    /\ last.result.status = "ok"
    /\ Cardinality(InVisitLast) = 2
    /\ Len(DecodedOfLast.rows) = MaxRows
    /\ BagCardinality(last.result.pairs) = 1

\* every row of the decoded table carries the participant's own identifier and
\* known visit, condition and status labels
LabelsValidOfLast ==
    \A i \in 1..Len(DecodedOfLast.rows) :
        /\ DecodedOfLast.rows[i].pid = last.key[2]
        /\ DecodedOfLast.rows[i].visit \in VisitID
        /\ DecodedOfLast.rows[i].period \in AnsPeriod
        /\ DecodedOfLast.rows[i].status \in VnsStatus

\* the segments that hold row i of the decoded table: a position k of the list
\* of get_visit_ids and a pair of get_ans_periods_and_vns_status for that
\* visit, counted as often as the list of pairs holds it
SegmentsHolding(i) ==
    LET visits == visit_ids_of(DecodedOfLast).visits
        listed(k) == ans_periods_and_vns_status_of(DecodedOfLast, visits[k]).pairs
        segment(k, pr) ==
            data_for_ans_period_of(DecodedOfLast, last.key[2], visits[k], pr[1], pr[2]).rows
    IN {kpn \in (1..Len(visits)) \X (AnsPeriod \X VnsStatus) \X (1..MaxRows) :
           /\ kpn[2] \in BagToSet(listed(kpn[1]))
           /\ kpn[3] <= CopiesIn(kpn[2], listed(kpn[1]))
           /\ DecodedOfLast.rows[i] \in Range(segment(kpn[1], kpn[2]))}

\* C27: for a decoded table whose rows all carry the participant's identifier
\* and valid labels, the segments get_data_for_ans_period returns, over every
\* visit of get_visit_ids and every pair of get_ans_periods_and_vns_status,
\* partition the table: every row belongs to exactly one segment.
C27_SegmentsPartitionTable ==
    (last.outcome \in {"hit", "miss"} /\ LabelsValidOfLast) =>
        \A i \in 1..Len(DecodedOfLast.rows) : Cardinality(SegmentsHolding(i)) = 1

\* a segment of a table of three segments in two visits was returned
C27_Witness ==
    /\ last.op = "get_data_for_ans_period"
    /\ last.outcome \in {"hit", "miss"}
    /\ LabelsValidOfLast
    /\ Len(DecodedOfLast.rows) = MaxRows
    /\ Len(last.result.rows) = 1
    /\ Len(visit_ids_of(DecodedOfLast).visits) = 2
    /\ \E i, j \in 1..MaxRows :
          /\ DecodedOfLast.rows[i].visit = DecodedOfLast.rows[j].visit
          /\ DecodedOfLast.rows[i].period = DecodedOfLast.rows[j].period
          /\ DecodedOfLast.rows[i].status # DecodedOfLast.rows[j].status

\* C24: every (condition, status) pair that get_ans_periods_and_vns_status
\* returns for a visit of the decoded table yields a non-empty table from
\* get_data_for_ans_period for that participant, visit and pair, whatever
\* Participant_ID labels the rows carry.
C24_ListedPairHasRows ==
    (/\ last.op = "get_data_for_ans_period"
     /\ last.outcome # "fail"
     /\ LET listed == ans_periods_and_vns_status_of(DecodedOfLast, last.visit) IN
           /\ listed.status = "ok"
           /\ <<last.period, last.vstatus>> \in BagToSet(listed.pairs))
        => (last.result.status = "ok" /\ last.result.rows # << >>)

(***************************************************************************)
(* Properties of the validation run (specification SpecValidate)           *)
(***************************************************************************)
\* C10: over a dataset whose directories and files exist,
\* validate_coarse_time_series never raises for what the recordings hold: no
\* exception ends the run inside the loops of the validation.
C10_ValidationNeverRaises ==
    ~(val.pc = "raised" /\ val.at \in {"visit", "segment"})

C11_ZeroElapsedDoesNotRaise == ~(val.pc = "raised" /\ val.error = "ZeroDivisionError")

(***************************************************************************)
(* Properties of the checks (specification SpecChecks)                     *)
(***************************************************************************)
\* the spacing of the rows of the table that was checked
PeriodOfChecked == chk.data.rows[2].time - chk.data.rows[1].time

\* r is a nearest integer of num / den
Nearest(r, num, den) ==
    LET d == num - r * den IN 2 * (IF d < 0 THEN -d ELSE d) <= den

\* C12 as stated: every table of n >= 2 rows evenly spaced at 250 Hz passes
\* check_sampling_rate with the default expected rate.
C12_EvenSpacingPasses ==
    (chk.op = "check_sampling_rate" /\ Len(chk.data.rows) >= 2 /\ PeriodOfChecked = 4000)
        => (chk.raised = "" /\ chk.result.passed)

\* C12, amended: on n >= 2 rows evenly spaced, check_sampling_rate with the
\* default expected rate does not raise and computes the integer nearest to
\* n / elapsed seconds; at 250 Hz spacing it passes exactly when n >= 501, and
\* at 100 Hz spacing it fails; a failure carries the computed rate.
C12_EvenSpacingRate ==
    (chk.op = "check_sampling_rate" /\ Len(chk.data.rows) >= 2) =>
        LET n == Len(chk.data.rows)
            elapsed == (n - 1) * PeriodOfChecked
        IN /\ chk.raised = ""
           /\ PeriodOfChecked = 4000 => (chk.result.passed <=> n >= 501)
           /\ PeriodOfChecked = 10000 => ~chk.result.passed
           /\ ~chk.result.passed =>
                  /\ chk.result.details.given
                  /\ chk.result.details.rate # chk.expected
                  /\ Nearest(chk.result.details.rate, n * 1000000, elapsed)
           /\ chk.result.passed => Nearest(chk.expected, n * 1000000, elapsed)

\* 501 rows over 2 s: the quotient 250.5 is rounded to the even 250
C12_Witness ==
    /\ chk.op = "check_sampling_rate"
    /\ Len(chk.data.rows) = 501
    /\ PeriodOfChecked = 4000
    /\ chk.result.passed

\* C13: check_missing_ans_periods_and_vns_status fails exactly when some
\* expected pair is absent from the observed pairs, its detail then lists
\* exactly the absent expected pairs, and it passes otherwise, whatever
\* unexpected pairs are observed.
C13_MissingPairsReported ==
    chk.op = "check_missing_ans_periods_and_vns_status" =>
        LET absent == {pr \in EXPECTED_ANS_PERIODS_AND_VNS_STATUS : pr \notin chk.pairs} IN
        /\ chk.result.passed <=> absent = {}
        /\ ~chk.result.passed => (chk.result.details.given /\ chk.result.details.pairs = absent)

\* the check passed on observed pairs that hold unexpected ones
C13_Witness ==
    /\ chk.op = "check_missing_ans_periods_and_vns_status"
    /\ chk.result.passed
    /\ <<"STIM1", "OFF">> \in chk.pairs

\* C14: check_unexpected_ans_periods_and_vns_status fails exactly when some
\* observed pair is outside the expected set, its detail then lists exactly
\* those pairs, and it passes otherwise, whatever expected pairs are missing.
C14_UnexpectedPairsReported ==
    chk.op = "check_unexpected_ans_periods_and_vns_status" =>
        LET extra == {pr \in chk.pairs : pr \notin EXPECTED_ANS_PERIODS_AND_VNS_STATUS} IN
        /\ chk.result.passed <=> extra = {}
        /\ ~chk.result.passed => (chk.result.details.given /\ chk.result.details.pairs = extra)

\* the check passed on observed pairs that miss an expected one
C14_Witness ==
    /\ chk.op = "check_unexpected_ans_periods_and_vns_status"
    /\ chk.result.passed
    /\ Cardinality(chk.pairs) = Cardinality(EXPECTED_ANS_PERIODS_AND_VNS_STATUS) - 1

\* the conditions the expected set lists with both statuses
InBothStatuses ==
    {a \in AnsPeriod : {<<a, "ON">>, <<a, "OFF">>} \subseteq EXPECTED_ANS_PERIODS_AND_VNS_STATUS}

\* the entries of the expected set for the conditions as
ExpectedFor(as) == {pr \in EXPECTED_ANS_PERIODS_AND_VNS_STATUS : pr[1] \in as}

\* C15 as stated: the expected set the completeness checks compare with has
\* 16 entries: rest, STIM1, STIM2 and STIM3 with status ON only, and six
\* conditions with both statuses.
C15_SixConditionsInBothStatuses ==
    chk.op \in {"check_missing_ans_periods_and_vns_status",
                "check_unexpected_ans_periods_and_vns_status"} =>
        /\ Cardinality(EXPECTED_ANS_PERIODS_AND_VNS_STATUS) = 16
        /\ ExpectedFor({"REST"}) # {}
        /\ ExpectedFor({"STIM1", "STIM2", "STIM3"}) = {"STIM1", "STIM2", "STIM3"} \X {"ON"}
        /\ Cardinality(InBothStatuses) = 6

\* C15, amended: the expected set has 16 entries: rest with status OFF,
\* STIM1, STIM2 and STIM3 with status ON only, the five conditions IHG, PECO,
\* HUT, BASEIHG and RECPECO with both statuses, BASEHUT with OFF only and
\* RECHUT with ON only; the completeness checks that pass were given all of
\* them (missing) or nothing else (unexpected).
C15_ExpectedSetShape ==
    /\ Cardinality(EXPECTED_ANS_PERIODS_AND_VNS_STATUS) = 16
    /\ ExpectedFor({"REST"}) = {<<"REST", "OFF">>}
    /\ ExpectedFor({"STIM1", "STIM2", "STIM3"}) = {"STIM1", "STIM2", "STIM3"} \X {"ON"}
    /\ InBothStatuses = {"IHG", "PECO", "HUT", "BASEIHG", "RECPECO"}
    /\ ExpectedFor({"BASEHUT", "RECHUT"}) = {<<"BASEHUT", "OFF">>, <<"RECHUT", "ON">>}
    /\ (chk.op = "check_missing_ans_periods_and_vns_status" /\ chk.result.passed) =>
           /\ {<<"BASEHUT", "OFF">>, <<"RECHUT", "ON">>} \subseteq chk.pairs
           /\ InBothStatuses \X VnsStatus \subseteq chk.pairs
    /\ (chk.op = "check_unexpected_ans_periods_and_vns_status" /\ chk.result.passed) =>
           /\ <<"BASEHUT", "ON">> \notin chk.pairs
           /\ <<"RECHUT", "OFF">> \notin chk.pairs

\* both completeness checks are passed only by the 16 pairs: here the missing
\* check passed on exactly 16 observed pairs
C15_Witness ==
    /\ chk.op = "check_missing_ans_periods_and_vns_status"
    /\ chk.result.passed
    /\ Cardinality(chk.pairs) = 16

\* C16: check_missing_recording_channels passes exactly when the 20 required
\* column names are all among the table's columns, and
\* check_unexpected_recording_channels passes exactly when every column of the
\* table is one of the 20; a complete table without HR fails only the former,
\* a complete table with one more column fails only the latter.
C16_ChannelChecksIndependent ==
    /\ chk.op = "check_missing_recording_channels" =>
          /\ Cardinality(required) = 20
          /\ chk.result.passed <=> (\A c \in required : c \in chk.data.cols)
          /\ chk.data.cols = required \ {"HR"} =>
                 /\ ~chk.result.passed
                 /\ check_unexpected_recording_channels(chk.data).passed
          /\ chk.data.cols = required \cup {"unexpected"} => chk.result.passed
    /\ chk.op = "check_unexpected_recording_channels" =>
          /\ chk.result.passed <=> (\A c \in chk.data.cols : c \in required)
          /\ chk.data.cols = required \cup {"unexpected"} =>
                 /\ ~chk.result.passed
                 /\ check_missing_recording_channels(chk.data).passed
          /\ chk.data.cols = required \ {"HR"} => chk.result.passed

\* the missing-channel check passed on a complete table with one more column
C16_Witness ==
    /\ chk.op = "check_missing_recording_channels"
    /\ chk.data.cols = required \cup {"unexpected"}
    /\ chk.result.passed

(***************************************************************************)
(* Properties of the report (specification SpecValidate)                   *)
(***************************************************************************)
CompletenessKinds ==
    <<"check_missing_ans_periods_and_vns_status",
      "check_unexpected_ans_periods_and_vns_status">>

SegmentKinds ==
    <<"check_missing_recording_channels", "check_unexpected_recording_channels",
      "check_sampling_rate">>

\* the position of a per-segment check among the per-segment checks
KindRank(name) == CHOOSE r \in 1..3 : SegmentKinds[r] = name

\* results k and l are about the same participant and visit
SameVisit(k, l) == val.about[k][1] = val.about[l][1] /\ val.about[k][2] = val.about[l][2]

\* result k is about a participant and visit that come no later than those
\* of result l
VisitNotAfter(k, l) ==
    \/ val.about[k][1] < val.about[l][1]
    \/ val.about[k][1] = val.about[l][1] /\ val.about[k][2] <= val.about[l][2]

\* C17 as stated: the report is ordered by participant, then visit, then
\* check kind, then segment: within a participant and visit, the results
\* of one per-segment check kind for all segments come before those of the
\* next kind.
C17_KindThenSegment ==
    \A k, l \in 1..Len(val.results) :
        k < l =>
            /\ VisitNotAfter(k, l)
            /\ (SameVisit(k, l) /\ val.about[k][3] # << >> /\ val.about[l][3] # << >>) =>
                   KindRank(val.results[k].name) <= KindRank(val.results[l].name)

\* C17, amended: the report is ordered by participant, then visit, then
\* segment, then check kind: a visit's two completeness results (missing,
\* unexpected) come first, then, segment after segment, the three results of
\* one segment next to each other (missing channels, unexpected channels,
\* sampling rate).
C17_SegmentThenKind ==
    LET R == val.results
        A == val.about
    IN /\ Len(A) = Len(R)
       /\ \A k, l \in 1..Len(R) :
              k < l =>
                  /\ VisitNotAfter(k, l)
                  /\ (SameVisit(k, l) /\ A[l][3] = << >>) => A[k][3] = << >>
       /\ \A k \in 1..Len(R) :
              IF A[k][3] = << >>
              THEN \E m \in 0..1 :
                      /\ k - m >= 1 /\ k - m + 1 <= Len(R)
                      /\ \A d \in 0..1 : /\ R[k - m + d].name = CompletenessKinds[d + 1]
                                          /\ A[k - m + d] = A[k]
              ELSE \E m \in 0..2 :
                      /\ k - m >= 1 /\ k - m + 2 <= Len(R)
                      /\ \A d \in 0..2 : /\ R[k - m + d].name = SegmentKinds[d + 1]
                                          /\ A[k - m + d] = A[k]

\* a completed report with two segments of one visit
C17_Witness ==
    /\ val.pc = "done"
    /\ \E k, l \in 1..Len(val.results) :
          /\ k < l /\ SameVisit(k, l)
          /\ val.about[k][3] # << >> /\ val.about[l][3] # << >>
          /\ val.about[k][3] # val.about[l][3]

\* the participant and visit positions the index holds
IndexSlots == {ij \in (1..Len(val.visits)) \X (1..2) : ij[2] <= Len(val.visits[ij[1]])}

\* the pairs the rows of visit v of participant p's recording carry
ObservedIn(p, v) ==
    {<<files[p].rows[k].period, files[p].rows[k].status>> :
        k \in {n \in 1..Len(files[p].rows) : files[p].rows[n].visit = v}}

ObservedAt(ij) == ObservedIn(val.ids[ij[1]], val.visits[ij[1]][ij[2]])

\* the sum of 2 + 3 * (number of observed pairs) over the positions of slots
RECURSIVE ReportLength(_)
ReportLength(slots) ==
    IF slots = {} THEN 0
    ELSE LET ij == CHOOSE x \in slots : TRUE
         IN 2 + 3 * Cardinality(ObservedAt(ij)) + ReportLength(slots \ {ij})

\* C18: a completed report holds, for every participant and visit of the
\* recordings, exactly one result of each of the two completeness checks and,
\* for every distinct (condition, status) pair of the visit, exactly one
\* result of each of the three per-segment checks, and nothing else: its
\* length is the sum of 2 + 3 * (number of observed pairs).
C18_ReportCount ==
    val.pc = "done" =>
        LET R == val.results
            A == val.about
            entries == {<<A[k], R[k].name>> : k \in 1..Len(R)}
        IN /\ \A i \in 1..Len(val.ids) :
                  /\ Range(val.visits[i]) =
                         {files[val.ids[i]].rows[n].visit : n \in 1..Len(files[val.ids[i]].rows)}
                  /\ Cardinality(Range(val.visits[i])) = Len(val.visits[i])
           /\ Cardinality(entries) = Len(R)
           /\ entries =
                  UNION {{<<<<ij[1], ij[2], << >> >>, name>> : name \in Range(CompletenessKinds)}
                         \cup {<<<<ij[1], ij[2], pr>>, name>> :
                                  pr \in ObservedAt(ij), name \in Range(SegmentKinds)}
                         : ij \in IndexSlots}
           /\ Len(R) = ReportLength(IndexSlots)

\* a completed report over three visits, one of them with two segments
C18_Witness ==
    /\ val.pc = "done"
    /\ Cardinality(IndexSlots) = 3
    /\ Len(val.results) = 18

(***************************************************************************)
(* Properties of the scan of primary/ (specification SpecScan)             *)
(***************************************************************************)
\* a name that follows the convention: "sub-" with a character that is not
\* whitespace right after it
WellFormed(name) == \E i \in 1..Len(name) - 1 : name[i] = "sub-" /\ name[i + 1] # " "

\* the positions of the listing that hold a well-formed directory
WellFormedDirs ==
    {k \in 1..Len(chk.listing) : chk.listing[k].is_dir /\ WellFormed(chk.listing[k].name)}

\* id follows a "sub-" in name, is not empty and holds no whitespace
IdentifierOf(id, name) ==
    /\ id # << >>
    /\ \A k \in 1..Len(id) : id[k] # " "
    /\ \E i \in 1..Len(name) :
          /\ name[i] = "sub-"
          /\ i + Len(id) <= Len(name)
          /\ SubSeq(name, i + 1, i + Len(id)) = id

C20_UnknownVisitIsSkipped ==
    ~(val.pc = "raised" /\ val.at = "index_visits" /\ val.error = "ValueError")

\* the five check functions
CheckNames ==
    {"check_missing_ans_periods_and_vns_status", "check_unexpected_ans_periods_and_vns_status",
     "check_missing_recording_channels", "check_unexpected_recording_channels",
     "check_sampling_rate"}

\* C28: every CheckResult one of the five checks returns carries a detail
\* string exactly when passed is false, and its name is the name of the check
\* function that returned it.
C28_DetailsIffFailedAndNamed ==
    (chk.op \in CheckNames /\ chk.raised = "") =>
        /\ chk.result.details.given <=> ~chk.result.passed
        /\ chk.result.name = chk.op
        /\ chk.result.passed => chk.result.details = NoDetails

\* the check of the unexpected channels failed on a table with one
C28_Witness ==
    /\ chk.op = "check_unexpected_recording_channels"
    /\ "unexpected" \in chk.data.cols
    /\ ~chk.result.passed
    /\ chk.result.details.given
    /\ chk.result.name = "check_unexpected_recording_channels"

(***************************************************************************)
(* Properties of the identifiers (specification SpecScan)                  *)
(***************************************************************************)
\* C21: every identifier returned by get_participant_ids, of the nested
\* layout or of the flat layout, is a non-empty string, whatever the names of
\* the directories under primary/.
C21_IdentifiersNotEmpty ==
    chk.op \in {"get_participant_ids", "flat_get_participant_ids"} =>
        \A r \in 1..Len(chk.ids) : chk.ids[r] # << >>

\* the positions of the listing whose name the extraction of the scan that
\* ran accepts, and the identifier returned for position k
AcceptedDirs ==
    {k \in 1..Len(chk.listing) :
        /\ chk.listing[k].is_dir
        /\ IF chk.op = "get_participant_ids" THEN WellFormed(chk.listing[k].name)
           ELSE "-" \in Range(characters(chk.listing[k].name))}

IdentifierAt(k) == chk.ids[Cardinality({m \in AcceptedDirs : m <= k})]

\* C29: every identifier returned by get_participant_ids names, through the
\* template sub-<id> of _load_data, the directory it was extracted from.
C29_IdentifierNamesItsDirectory ==
    chk.op \in {"get_participant_ids", "flat_get_participant_ids"} =>
        /\ Len(chk.ids) = Cardinality(AcceptedDirs)
        /\ \A k \in AcceptedDirs :
               participant_dir(IdentifierAt(k)) = characters(chk.listing[k].name)

(***************************************************************************)
(* Properties of the stimulation settings (specification SpecStim)         *)
(***************************************************************************)
\* the tables as the dataset defines them: one row per option, one row per
\* participant
OneRowEach ==
    /\ \A i, j \in 1..Len(stim.options) :
           stim.options[i].stim_option = stim.options[j].stim_option => i = j
    /\ \A i, j \in 1..Len(stim.assigned) :
           stim.assigned[i].Participant_ID = stim.assigned[j].Participant_ID => i = j

\* the key of slot k of row i of the assignment table
KeyOfSlot(i, k) ==
    <<stim.assigned[i].Participant_ID, ParticipantMappingCsvColumn[k][1],
      ParticipantMappingCsvColumn[k][2]>>

\* C22: when get_ans_stim_mapping returns, for every row of the assignment
\* table and each of the six slots the mapping holds an entry keyed
\* (participant, visit, condition) whose pulse width, current, frequency and
\* duty-cycle-off are those of the option-table row of the option named in
\* the slot and whose duty-cycle-on is 1; the mapping holds no other entry.
C22_MappingJoinsTables ==
    (stim.pc = "mapped" /\ OneRowEach) =>
        /\ \A i \in 1..Len(stim.assigned) : \A k \in 1..6 :
               /\ KeyOfSlot(i, k) \in DOMAIN stim.mapping
               /\ \E j \in 1..Len(stim.options) :
                      /\ stim.options[j].stim_option = stim.assigned[i].slots[k]
                      /\ stim.mapping[KeyOfSlot(i, k)] =
                             [pulse_width |-> stim.options[j].pulse_width_ms,
                              current |-> stim.options[j].level_ma,
                              frequency |-> stim.options[j].freq_hz,
                              duty_cycle_off |-> stim.options[j].duty_cycle_off_min,
                              duty_cycle_on |-> 1]
        /\ \A key \in DOMAIN stim.mapping :
               \E i \in 1..Len(stim.assigned) : \E k \in 1..6 : key = KeyOfSlot(i, k)
        /\ Cardinality(DOMAIN stim.mapping) = 6 * Len(stim.assigned)

\* two participants, one of them with six different options: twelve entries
C22_Witness ==
    /\ stim.pc = "mapped"
    /\ OneRowEach
    /\ Len(stim.assigned) = 2
    /\ \E i \in 1..2 : stim.assigned[i].slots = <<"A", "B", "C", "D", "E", "F">>
    /\ Cardinality(DOMAIN stim.mapping) = 12

\* C23: when a slot of the assignment table names an option without row in
\* the option table, only that entry fails: every other entry is resolved and
\* returned.
C23_OtherEntriesStillResolved ==
    stim.pc \in {"mapped", "raised"} =>
        LET stim_option_mapping == get_stim_option_mapping(stim.options).mapping
            participant_mapping == get_participant_mapping(stim.assigned).mapping
        IN \A key \in DOMAIN participant_mapping :
              participant_mapping[key] \in DOMAIN stim_option_mapping =>
                  /\ key \in DOMAIN stim.mapping
                  /\ stim.mapping[key] = stim_option_mapping[participant_mapping[key]]

\* C30: get_stim_on_times terminates for non-negative ON and OFF durations:
\* every iteration of its loop leaves stim_on_time beyond the start of the
\* interval it appended; every interval starts in [start_time, end_time), and
\* consecutive starts are duty_cycle_on + duty_cycle_off apart.
C30_EveryIterationAdvances ==
    stim.pc \in {"while", "returned"} =>
        LET n == Len(stim.stim_on_times) IN
        /\ \A i \in 1..n :
               /\ stim.start_time <= stim.stim_on_times[i][1]
               /\ stim.stim_on_times[i][1] < stim.end_time
        /\ \A i \in 1..n - 1 :
               stim.stim_on_times[i + 1][1] - stim.stim_on_times[i][1] =
                   stim.duty_cycle_on + stim.duty_cycle_off
        /\ n > 0 => stim.stim_on_time > stim.stim_on_times[n][1]

====
